---- MODULE Spec2Model ----
(***************************************************************************)
(* Model of src/shell_lightweighting/ShellOptimisation.py: the Nelder-Mead *)
(* search of optimiseThickness over a 3-point simplex of shell             *)
(* thicknesses, the objectiveFunction adapter and the createShellFeature / *)
(* undoShellFeatures oracle it drives.                                     *)
(*                                                                         *)
(* Numbers.  Thicknesses are exact multiples of 1/Den (the number the code *)
(* holds, in mm after line 431).  Masses are exact multiples of            *)
(* 1/(100*Den) kg.  An objective value is a number of kg^2, kept as        *)
(* [kg2, u2] = kg2 whole kg^2 plus u2 squared mass units, because the      *)
(* sentinel 1e6 kg^2 does not fit a machine integer in squared mass units. *)
(***************************************************************************)
EXTENDS Integers, Sequences, FiniteSets, TLC

\* ------------------------------------------------------------------ bounds
\* Largest value of the 'Max Iterations' input explored with the free and
\* the always-failing oracle.
MaxIter == 1

\* Number of createShellFeature calls followed on the feature timeline.
MaxTrials == 2

\* Thickness units per mm.  The initial simplex needs twentieths; a pass of
\* the loop needs at most two more binary digits (centroid, then contraction
\* or shrink), and the loop body runs at most MaxIter + 1 times with the free
\* oracle; one more pass is left as a margin.  Half is undefined, and TLC
\* stops, where a division is not exact.
Den == 20 * (4 ^ (MaxIter + 2))

\* ------------------------------------------------------------ the inputs
\* 'Max Iterations' of the scenario of spec section 8, which is also the
\* value the input starts with.
ScenarioMaxIterations == 50
\* 0.045 kg, 0.003 kg, 0.05 kg, 3 mm, 0.5 mm in model units: 0.01 kg per mm
\* of the scenario oracle is one mass unit per thickness unit.
ScenarioTarget == (9 * Den) \div 2
ScenarioTolerance == (3 * Den) \div 10
ScenarioEmptyMass == 5 * Den
ScenarioPlateau == 3 * Den
ScenarioRoot == Den \div 2
\* _initialThickness.value is in centimetres: 1.5 mm is 0.15, 1.0 mm is 0.10.
ScenarioGuessValue == (3 * Den) \div 20
DefaultGuessValue == Den \div 10

OracleKinds == {"free", "linear", "failing"}

\* Masses a free oracle can report: nothing, the target itself, and 10 g
\* above the target.
Masses == {0, ScenarioTarget, ScenarioTarget + Den}

\* ---------------------------------------------------------------- values
None == [kind |-> "none", mass |-> 0]
Raised == [kind |-> "raise", mass |-> 0]
Measured(m) == [kind |-> "mass", mass |-> m]

NoValue == [kg2 |-> -1, u2 |-> 0]
Sentinel == [kg2 |-> 1000000, u2 |-> 0]

Less(a, b) == a.kg2 < b.kg2 \/ (a.kg2 = b.kg2 /\ a.u2 < b.u2)
LessEq(a, b) == ~Less(b, a)

Abs(x) == IF x < 0 THEN -x ELSE x
Half(x) == CHOOSE h \in {x \div 2} : 2 * h = x

\* Nelder-Mead coefficients, as multiplications.
alpha(x) == 1 * x
gamma(x) == 2 * x
rho(x) == Half(x)
sigma(x) == Half(x)

VARIABLES
    oracle,              \* which oracle the run faces
    bodies,              \* TRUE iff a body is selected
    initialThickness,    \* _initialThickness.value
    tolerance,           \* _tolerance.value
    maxIterations,       \* _maxIterations.value
    bodyName, cachedName, solidMass,
    simplex, simplex_values, iteration, iterations,
    own_value,           \* per slot: its cached value was returned for its thickness
    centroid, reflected_thickness, reflected_value,
    expanded_thickness, expanded_value,
    contracted_thickness, contracted_value,
    shellMass,
    idx,                 \* index of the for loops (initial simplex, shrink)
    pc,                  \* position in optimiseThickness
    sub,                 \* position in the pending createShellFeature call
    thickness,           \* thickness argument of the pending/last call
    undoResult,          \* what undoShellFeatures returned in that call
    ret,                 \* what createShellFeature returned
    objective,           \* what the last objectiveFunction call returned
    reason,              \* how the run ended
    raisedAt,            \* position the exception came from
    undoCalled,          \* undoShellFeatures has been called in this run
    shellAttempted,      \* a shell creation has been attempted in this run
    \* One createShellFeature call followed on the design's timeline.
    timeline,            \* the features the calls have left in the design
    wasSurface,          \* the global _wasSurface
    tpc,                 \* position in the createShellFeature call
    trial,               \* number of createShellFeature calls so far
    undoReturn,          \* what undoShellFeatures returned in this call
    result,              \* what the last createShellFeature call did
    ii, patchTried,      \* locals of surfaceToSolid's stitch loop
    stitchFeature,       \* what the local stitchFeature refers to
    attempts,            \* stitches.add calls in this surfaceToSolid call
    patchCalls,          \* patchSurface calls in this surfaceToSolid call
    solidSeen            \* a stitch attempt of this call produced a solid body

inputs == <<oracle, bodies, tolerance, maxIterations>>
engine == <<simplex, simplex_values, own_value, iteration, iterations, centroid,
            reflected_thickness, reflected_value, expanded_thickness,
            expanded_value, contracted_thickness, contracted_value,
            shellMass, idx>>
call == <<sub, thickness, undoResult, ret, objective>>
outcome == <<reason, raisedAt>>
ghost == <<undoCalled, shellAttempted>>
stitching == <<ii, patchTried, stitchFeature, attempts, patchCalls, solidSeen>>
features == <<timeline, wasSurface, tpc, trial, undoReturn, result, stitching>>
run == <<inputs, initialThickness, bodyName, cachedName, solidMass, engine,
         pc, call, outcome, ghost>>
vars == <<run, features>>


\* ------------------------------------------------------------ the oracle
\* measured(x) = 0.05 - 0.01*min(x,3) of the scenario, in mass units.
measured(x) == ScenarioEmptyMass - (IF x < ScenarioPlateau THEN x ELSE ScenarioPlateau)

\* What undoShellFeatures can return: True, or None (no active design, or an
\* exception caught by its own except, which has no return statement).  The
\* scenario oracles of spec section 8 vary the evaluation only.
UndoOutcomes == IF oracle = "free" THEN {"True", "None"} ELSE {"True"}

\* What the rest of createShellFeature can do for a thickness: return the
\* component's mass, return None, or raise.
ShellOutcomes(th) ==
    CASE oracle = "linear" -> {Measured(measured(th))}
      [] oracle = "failing" -> {None, Raised}
      [] OTHER -> {Measured(m) : m \in Masses} \cup {None, Raised}

\* ------------------------------------------------------ objectiveFunction
\* Python truth of createShellFeature's result.
Truthy(r) == r.kind = "mass" /\ r.mass # 0

SquaredError(m) == [kg2 |-> 0, u2 |-> (m - solidMass) * (m - solidMass)]

objectiveFunction(r) == IF Truthy(r) THEN SquaredError(r.mass) ELSE Sentinel

\* ------------------------------------------------------------- the engine
Perms == {p \in [1..3 -> 1..3] : \A a, b \in 1..3 : a # b => p[a] # p[b]}

sorted_indicesDescending(values) ==
    CHOOSE p \in Perms : \A a, b \in 1..3 : a < b =>
        \/ Less(values[p[b]], values[p[a]])
        \/ (values[p[a]] = values[p[b]] /\ p[a] < p[b])

\* sorted(range(3), key=values): ascending, ties keep their index order.
sorted_indices(values) ==
    CHOOSE p \in Perms : \A a, b \in 1..3 : a < b =>
        \/ Less(values[p[a]], values[p[b]])
        \/ (values[p[a]] = values[p[b]] /\ p[a] < p[b])

Reorder(s, p) == [k \in 1..3 |-> s[p[k]]]

Centroid(s) == Half(s[1] + s[2])

Reflect(c, worst) == c + alpha(c - worst)
Expand(c, r) == c + gamma(r - c)
ContractOutside(c, worst) == c + rho(worst - c)
ContractInside(c, worst) == c - rho(worst - c)
ShrinkPointFromPoint(best, point) == point + sigma(point - best)

ShrinkPoint(best, point) == best + sigma(point - best)

\* The thickness handed to objectiveFunction for the expansion point, the
\* contraction point and a shrunk point.
ExpansionArgument(expanded, reflected) == reflected
ContractionArgument(contracted, reflected) == reflected
ShrinkArgument(shrunk, reflected) == reflected

LoopConditionOffByOne == iteration <= maxIterations + 1

LoopCondition == iteration <= maxIterations

ConvergenceTestNoAbs(m) == m - solidMass < tolerance

ConvergenceTest(m) == Abs(m - solidMass) < tolerance

\* ------------------------------------------------------------------- Init
Init ==
    /\ oracle \in OracleKinds
    /\ bodies \in BOOLEAN
    /\ initialThickness \in
         (IF oracle = "linear" THEN {ScenarioGuessValue, DefaultGuessValue}
          ELSE {DefaultGuessValue})
    /\ tolerance = ScenarioTolerance
    /\ maxIterations \in
         (1..MaxIter) \cup (IF oracle = "linear" THEN {ScenarioMaxIterations} ELSE {})
    /\ bodyName = "Body1"
    /\ cachedName = "unset"
    /\ solidMass = 0
    /\ simplex = <<>>
    /\ simplex_values = <<>>
    /\ own_value = <<>>
    /\ iteration = 0
    /\ iterations = <<>>
    /\ centroid = 0
    /\ reflected_thickness = 0
    /\ reflected_value = NoValue
    /\ expanded_thickness = 0
    /\ expanded_value = NoValue
    /\ contracted_thickness = 0
    /\ contracted_value = NoValue
    /\ shellMass = None
    /\ idx = 0
    /\ pc = "start"
    /\ sub = "idle"
    /\ thickness = 0
    /\ undoResult = "unset"
    /\ ret = None
    /\ objective = NoValue
    /\ reason = "running"
    /\ raisedAt = "nowhere"
    /\ undoCalled = FALSE
    /\ shellAttempted = FALSE
    /\ timeline = <<>>
    /\ wasSurface = FALSE
    /\ tpc = "idle"
    /\ trial = 0
    /\ undoReturn = "unset"
    /\ result = "unset"
    /\ ii = 0
    /\ patchTried = FALSE
    /\ stitchFeature = "unbound"
    /\ attempts = 0
    /\ patchCalls = 0
    /\ solidSeen = FALSE

\* createShellFeature(body, th) is called: it starts with the undo, and has
\* no result yet.
Call(th) ==
    /\ sub' = "undo"
    /\ thickness' = th
    /\ undoResult' = "unset"
    /\ ret' = None

\* An exception leaves the try block of optimiseThickness.
Raise ==
    /\ pc' = "except"
    /\ raisedAt' = pc
    /\ sub' = "idle"
    /\ UNCHANGED <<thickness, undoResult, ret, objective, reason>>

\* ---------------------------------------------------------------- actions
\* optimiseThickness up to the first objectiveFunction call.  The active
\* design is valid here, so weighComponent returns the body's mass.
Start ==
    /\ pc = "start"
    /\ initialThickness' = initialThickness * 10
    /\ IF ~bodies
         THEN /\ pc' = "done"
              /\ reason' = "NoBodies"
              /\ UNCHANGED <<bodyName, cachedName, solidMass, engine, call,
                             raisedAt>>
         ELSE /\ cachedName' = bodyName
              /\ bodyName' = "Selected_Body"
              /\ solidMass' = ScenarioTarget
              /\ simplex' = <<initialThickness', (initialThickness' * 11) \div 10,
                              (initialThickness' * 12) \div 10>>
              /\ iteration' = 0
              /\ iterations' = <<>>
              /\ simplex_values' = <<>>
              /\ own_value' = <<>>
              /\ idx' = 1
              /\ pc' = "initial"
              /\ Call(simplex'[1])
              /\ objective' = NoValue
              /\ UNCHANGED <<centroid, reflected_thickness, reflected_value,
                             expanded_thickness, expanded_value,
                             contracted_thickness, contracted_value, shellMass,
                             outcome>>
    /\ UNCHANGED <<inputs, ghost>>
    /\ UNCHANGED features

\* createShellFeature, preUndo: undoShellFeatures() is called; a falsy
\* result makes createShellFeature return None.
UndoShellFeatures ==
    /\ sub = "undo"
    /\ \E u \in UndoOutcomes :
         /\ undoResult' = u
         /\ IF u = "True"
              THEN sub' = "shell"
              ELSE sub' = "returned"
    /\ ret' = None
    /\ undoCalled' = TRUE
    /\ UNCHANGED <<inputs, initialThickness, bodyName, cachedName, solidMass,
                   engine, pc, thickness, objective, reason, raisedAt,
                   shellAttempted>>
    /\ UNCHANGED features

\* createShellFeature after the undo: the shell feature is created and the
\* component weighed, or the call fails.
CreateShellFeature ==
    /\ sub = "shell"
    /\ \E r \in ShellOutcomes(thickness) : ret' = r
    /\ sub' = "returned"
    /\ shellAttempted' = TRUE
    /\ UNCHANGED <<inputs, initialThickness, bodyName, cachedName, solidMass,
                   engine, pc, thickness, undoResult, objective, outcome,
                   undoCalled>>
    /\ UNCHANGED features

\* One pass of the for loop that evaluates the initial simplex.
InitialSimplex ==
    /\ pc = "initial" /\ sub = "returned"
    /\ IF ret.kind = "raise"
         THEN Raise /\ UNCHANGED engine
         ELSE /\ simplex_values' = Append(simplex_values, objectiveFunction(ret))
              /\ own_value' = Append(own_value, thickness = simplex[idx])
              /\ IF idx < 3
                   THEN /\ idx' = idx + 1
                        /\ pc' = "initial"
                        /\ Call(simplex[idx + 1])
                   ELSE /\ idx' = idx
                        /\ pc' = "while"
                        /\ sub' = "idle"
                        /\ UNCHANGED <<thickness, undoResult, ret>>
              /\ objective' = objectiveFunction(ret)
              /\ UNCHANGED <<simplex, iteration, iterations, centroid,
                             reflected_thickness, reflected_value,
                             expanded_thickness, expanded_value,
                             contracted_thickness, contracted_value, shellMass,
                             outcome>>
    /\ UNCHANGED <<inputs, initialThickness, bodyName, cachedName, solidMass, ghost>>
    /\ UNCHANGED features

\* while iteration <= _maxIterations.value: sort, centroid, reflection point,
\* and the call that evaluates it; or the loop ends on its condition.
While ==
    /\ pc = "while"
    /\ IF LoopCondition
         THEN LET p == sorted_indices(simplex_values)
                  s == Reorder(simplex, p)
                  c == Centroid(s)
              IN /\ simplex' = s
                 /\ simplex_values' = Reorder(simplex_values, p)
                 /\ own_value' = Reorder(own_value, p)
                 /\ centroid' = c
                 /\ reflected_thickness' = Reflect(c, s[3])
                 /\ Call(Reflect(c, s[3]))
                 /\ pc' = "reflection"
                 /\ UNCHANGED reason
         ELSE /\ pc' = "finish"
              /\ reason' = "BudgetExhausted"
              /\ UNCHANGED <<simplex, simplex_values, own_value, centroid,
                             reflected_thickness, sub, thickness, undoResult, ret>>
    /\ UNCHANGED <<inputs, initialThickness, bodyName, cachedName, solidMass,
                   iteration, iterations, reflected_value, expanded_thickness,
                   expanded_value, contracted_thickness, contracted_value,
                   shellMass, idx, objective, raisedAt, ghost>>
    /\ UNCHANGED features

\* The shrink loop starts: its first point moves, which parts it from its
\* cached value, and is evaluated.
StartShrink ==
    /\ simplex' = [simplex EXCEPT ![2] = ShrinkPoint(simplex[1], simplex[2])]
    /\ own_value' = [k \in 1..3 |-> own_value[k] /\ simplex'[k] = simplex[k]]
    /\ idx' = 2
    /\ pc' = "shrink"
    /\ Call(ShrinkArgument(ShrinkPoint(simplex[1], simplex[2]), reflected_thickness))

\* The reflected value is back: accept it, or go on to expansion or to one
\* of the two contractions.
Reflection ==
    /\ pc = "reflection" /\ sub = "returned"
    /\ IF ret.kind = "raise"
         THEN Raise /\ UNCHANGED engine
         ELSE LET rv == objectiveFunction(ret) IN
              /\ reflected_value' = rv
              /\ objective' = rv
              /\ UNCHANGED <<iteration, iterations, centroid, reflected_thickness,
                             expanded_value, contracted_value, shellMass, idx,
                             outcome>>
              /\ CASE LessEq(simplex_values[1], rv) /\ Less(rv, simplex_values[2]) ->
                        /\ simplex' = [simplex EXCEPT ![3] = reflected_thickness]
                        /\ simplex_values' = [simplex_values EXCEPT ![3] = rv]
                        /\ own_value' = [own_value EXCEPT
                                           ![3] = (thickness = reflected_thickness)]
                        /\ pc' = "record"
                        /\ sub' = "idle"
                        /\ UNCHANGED <<thickness, undoResult, ret,
                                       expanded_thickness, contracted_thickness>>
                   [] Less(rv, simplex_values[1]) ->
                        /\ expanded_thickness' = Expand(centroid, reflected_thickness)
                        /\ Call(ExpansionArgument(Expand(centroid, reflected_thickness),
                                                  reflected_thickness))
                        /\ pc' = "expansion"
                        /\ UNCHANGED <<simplex, simplex_values, own_value,
                                       contracted_thickness>>
                   [] LessEq(simplex_values[2], rv) /\ Less(rv, simplex_values[3]) ->
                        /\ contracted_thickness' = ContractOutside(centroid, simplex[3])
                        /\ Call(ContractionArgument(ContractOutside(centroid, simplex[3]),
                                                    reflected_thickness))
                        /\ pc' = "outside_contraction"
                        /\ UNCHANGED <<simplex, simplex_values, own_value,
                                       expanded_thickness>>
                   [] LessEq(simplex_values[3], rv) ->
                        /\ contracted_thickness' = ContractInside(centroid, simplex[3])
                        /\ Call(ContractionArgument(ContractInside(centroid, simplex[3]),
                                                    reflected_thickness))
                        /\ pc' = "inside_contraction"
                        /\ UNCHANGED <<simplex, simplex_values, own_value,
                                       expanded_thickness>>
    /\ UNCHANGED <<inputs, initialThickness, bodyName, cachedName, solidMass, ghost>>
    /\ UNCHANGED features

\* The value for the expansion point is back: keep the expansion point or
\* the reflected point; reflected_value was returned for reflected_thickness
\* (lines 490-491).
Expansion ==
    /\ pc = "expansion" /\ sub = "returned"
    /\ IF ret.kind = "raise"
         THEN Raise /\ UNCHANGED engine
         ELSE LET ev == objectiveFunction(ret) IN
              /\ expanded_value' = ev
              /\ objective' = ev
              /\ IF Less(ev, reflected_value)
                   THEN /\ simplex' = [simplex EXCEPT ![3] = expanded_thickness]
                        /\ simplex_values' = [simplex_values EXCEPT ![3] = ev]
                        /\ own_value' = [own_value EXCEPT
                                           ![3] = (thickness = expanded_thickness)]
                   ELSE /\ simplex' = [simplex EXCEPT ![3] = reflected_thickness]
                        /\ simplex_values' = [simplex_values EXCEPT ![3] = reflected_value]
                        /\ own_value' = [own_value EXCEPT ![3] = TRUE]
              /\ pc' = "record"
              /\ sub' = "idle"
              /\ UNCHANGED <<iteration, iterations, centroid, reflected_thickness,
                             reflected_value, expanded_thickness,
                             contracted_thickness, contracted_value, shellMass,
                             idx, thickness, undoResult, ret, outcome>>
    /\ UNCHANGED <<inputs, initialThickness, bodyName, cachedName, solidMass, ghost>>
    /\ UNCHANGED features

\* The value for the contraction point is back: keep the contraction point
\* or shrink.  The same code follows both contractions.
Contraction ==
    /\ sub = "returned"
    /\ IF ret.kind = "raise"
         THEN Raise /\ UNCHANGED engine
         ELSE LET cv == objectiveFunction(ret) IN
              /\ contracted_value' = cv
              /\ objective' = cv
              /\ IF Less(cv, simplex_values[3])
                   THEN /\ simplex' = [simplex EXCEPT ![3] = contracted_thickness]
                        /\ simplex_values' = [simplex_values EXCEPT ![3] = cv]
                        /\ own_value' = [own_value EXCEPT
                                           ![3] = (thickness = contracted_thickness)]
                        /\ pc' = "record"
                        /\ sub' = "idle"
                        /\ UNCHANGED <<idx, thickness, undoResult, ret>>
                   ELSE /\ StartShrink
                        /\ UNCHANGED simplex_values
              /\ UNCHANGED <<iteration, iterations, centroid, reflected_thickness,
                             reflected_value, expanded_thickness, expanded_value,
                             contracted_thickness, shellMass, outcome>>
    /\ UNCHANGED <<inputs, initialThickness, bodyName, cachedName, solidMass, ghost>>
    /\ UNCHANGED features

OutsideContraction == pc = "outside_contraction" /\ Contraction

InsideContraction == pc = "inside_contraction" /\ Contraction

\* One pass of the shrink loop: the value for the moved point is stored, and
\* the next point moves.
Shrink ==
    /\ pc = "shrink" /\ sub = "returned"
    /\ IF ret.kind = "raise"
         THEN Raise /\ UNCHANGED engine
         ELSE /\ simplex_values' = [simplex_values EXCEPT ![idx] = objectiveFunction(ret)]
              /\ objective' = objectiveFunction(ret)
              /\ IF idx < 3
                   THEN /\ simplex' = [simplex EXCEPT
                                         ![idx + 1] = ShrinkPoint(simplex[1], simplex[idx + 1])]
                        /\ idx' = idx + 1
                        /\ pc' = "shrink"
                        /\ Call(ShrinkArgument(ShrinkPoint(simplex[1], simplex[idx + 1]),
                                               reflected_thickness))
                   ELSE /\ pc' = "record"
                        /\ sub' = "idle"
                        /\ UNCHANGED <<simplex, idx, thickness, undoResult, ret>>
              /\ own_value' = [k \in 1..3 |->
                                 IF k = idx THEN thickness = simplex[idx]
                                 ELSE own_value[k] /\ simplex'[k] = simplex[k]]
              /\ UNCHANGED <<iteration, iterations, centroid, reflected_thickness,
                             reflected_value, expanded_thickness, expanded_value,
                             contracted_thickness, contracted_value, shellMass,
                             outcome>>
    /\ UNCHANGED <<inputs, initialThickness, bodyName, cachedName, solidMass, ghost>>
    /\ UNCHANGED features

\* The locals of the if-chain are dead once it is left: each is assigned
\* again before the next pass reads it, so the model forgets their values.
Forget ==
    /\ centroid' = 0
    /\ reflected_thickness' = 0
    /\ reflected_value' = NoValue
    /\ expanded_thickness' = 0
    /\ expanded_value' = NoValue
    /\ contracted_thickness' = 0
    /\ contracted_value' = NoValue
    /\ idx' = 0

\* End of the loop body: the best thickness is recorded, the counter moves
\* and the shell for simplex[0] is created again to weigh it.
Record ==
    /\ pc = "record"
    /\ iterations' = Append(iterations, simplex[1])
    /\ iteration' = iteration + 1
    /\ Call(simplex[1])
    /\ objective' = NoValue
    /\ pc' = "convergence"
    /\ Forget
    /\ UNCHANGED <<inputs, initialThickness, bodyName, cachedName, solidMass,
                   simplex, simplex_values, own_value, shellMass, outcome,
                   ghost>>
    /\ UNCHANGED features

\* The mass is back: the log message is formatted (a None mass raises
\* TypeError there) and the convergence test breaks the loop or not.
Convergence ==
    /\ pc = "convergence" /\ sub = "returned"
    /\ IF ret.kind = "raise"
         THEN Raise /\ UNCHANGED shellMass
         ELSE /\ shellMass' = ret
              /\ IF ret.kind = "none"
                   THEN Raise
                   ELSE /\ sub' = "idle"
                        /\ UNCHANGED <<thickness, undoResult, ret, objective,
                                       raisedAt>>
                        /\ IF ConvergenceTest(ret.mass)
                             THEN pc' = "finish" /\ reason' = "Converged"
                             ELSE pc' = "while" /\ reason' = reason
    /\ UNCHANGED <<inputs, initialThickness, bodyName, cachedName, solidMass,
                   simplex, simplex_values, own_value, iteration, iterations,
                   centroid, reflected_thickness, reflected_value,
                   expanded_thickness, expanded_value, contracted_thickness,
                   contracted_value, idx, ghost>>
    /\ UNCHANGED features

\* After the loop: the body gets its name back and the result is reported.
Finish ==
    /\ pc = "finish"
    /\ bodyName' = cachedName
    /\ pc' = "done"
    /\ UNCHANGED <<inputs, initialThickness, cachedName, solidMass, engine, call,
                   outcome, ghost>>
    /\ UNCHANGED features

\* except: of optimiseThickness: message box, log entry, stop(None); the
\* handler returns without reaching the code after the loop.
Except ==
    /\ pc = "except"
    /\ reason' = "Aborted"
    /\ pc' = "done"
    /\ UNCHANGED <<inputs, initialThickness, bodyName, cachedName, solidMass,
                   engine, call, raisedAt, ghost>>
    /\ UNCHANGED features

Next ==
    \/ Start
    \/ UndoShellFeatures
    \/ CreateShellFeature
    \/ InitialSimplex
    \/ While
    \/ Reflection
    \/ Expansion
    \/ OutsideContraction
    \/ InsideContraction
    \/ Shrink
    \/ Record
    \/ Convergence
    \/ Finish
    \/ Except

Spec == Init /\ [][Next]_vars

\* Every call returns and the handler keeps running until it returns.
FairSpec == Spec /\ WF_vars(Next)

\* ======================================================= the feature timeline
\* createShellFeature followed on the design: the features each call adds
\* to the timeline and the ones undoShellFeatures deletes.  A call is made
\* with preUndo = True, as every call of the program is.

\* tols = ['0.1 mm', '1 mm', '10 mm']
NumTols == 3

\* What stitches.add can do in one attempt.
StitchOutcomes == {"exception", "no_body", "non_solid", "solid"}

\* 'if not patchTried': the first failed attempt calls patchSurface.
MayPatchAlways(tried) == TRUE

MayPatch(tried) == ~tried

\* patchSurface: a patch feature stays in the design when the patch gives a
\* solid body or no body at all; a patch with a non-solid body is deleted
\* again, and the early returns and an exception in patches.add add none.
patchSurface(t, patched) == IF patched THEN Append(t, "patch") ELSE t

\* Index of the first shell feature in a timeline, 0 if there is none.
FirstShell(t) ==
    IF \E k \in 1..Len(t) : t[k] = "shell"
      THEN CHOOSE k \in 1..Len(t) :
               t[k] = "shell" /\ \A j \in 1..(k - 1) : t[j] # "shell"
      ELSE 0

\* features_to_delete of the _wasSurface branch: the shell feature and,
\* after it, every shell, stitch and combine feature.
features_to_delete(t) ==
    {k \in 1..Len(t) : /\ FirstShell(t) # 0
                       /\ k >= FirstShell(t)
                       /\ t[k] \in {"shell", "stitch", "combine"}}

\* The m entries of D that reversed(D) visits first.
LastOf(D, m) == {k \in D : Cardinality({j \in D : j > k}) < m}

\* The timeline once the features at the indices in D are deleted.
Without(t, D) ==
    LET keep == (1..Len(t)) \ D
    IN [i \in 1..Cardinality(keep) |->
          t[CHOOSE k \in keep : Cardinality({j \in keep : j <= k}) = i]]

\* createShellFeature returns or raises: the call is over.
Return(r) ==
    /\ result' = r
    /\ tpc' = "idle"

\* createShellFeature(body, thickness, preUndo=True) is called.
TrialCall ==
    /\ tpc = "idle"
    /\ trial < MaxTrials
    /\ trial' = trial + 1
    /\ tpc' = "undo"
    /\ undoReturn' = "unset"
    /\ result' = "unset"
    /\ UNCHANGED <<run, timeline, wasSurface, stitching>>

\* undoShellFeatures.  With _wasSurface set it deletes features_to_delete in
\* reverse order and clears the flag; a deleteMe that raises ends it in the
\* outer except, which returns None.  Otherwise it deletes the first shell
\* feature of the body inside its own try/except and returns True whether
\* or not the deletion worked.  Without a design it returns None.
TrialUndo ==
    /\ tpc = "undo"
    /\ LET D == features_to_delete(timeline)
           f == FirstShell(timeline)
       IN \/ /\ undoReturn' = "None"
             /\ UNCHANGED <<timeline, wasSurface>>
          \/ /\ wasSurface
             /\ timeline' = Without(timeline, D)
             /\ wasSurface' = FALSE
             /\ undoReturn' = "True"
          \/ /\ wasSurface
             /\ \E m \in 0..(Cardinality(D) - 1) :
                  timeline' = Without(timeline, LastOf(D, m))
             /\ undoReturn' = "None"
             /\ UNCHANGED wasSurface
          \/ /\ ~wasSurface
             /\ \E deleted \in BOOLEAN :
                  timeline' = IF f # 0 /\ deleted THEN Without(timeline, {f})
                              ELSE timeline
             /\ undoReturn' = "True"
             /\ UNCHANGED wasSurface
    /\ IF undoReturn' = "True"
         THEN tpc' = "shell" /\ UNCHANGED result
         ELSE Return("none")
    /\ UNCHANGED <<run, trial, stitching>>

\* createShellFeature after the undo, up to the stitch loop of
\* surfaceToSolid: the early returns, shellFeatures.add, and the search for a
\* non-solid body.
TrialShell ==
    /\ tpc = "shell"
    /\ \E o \in {"none", "raise", "solid", "surface"} :
         CASE o \in {"none", "raise"} ->
                /\ Return(o)
                /\ UNCHANGED <<timeline, stitching>>
           [] o = "solid" ->
                /\ timeline' = Append(timeline, "shell")
                /\ Return("mass")
                /\ UNCHANGED stitching
           [] o = "surface" ->
                /\ timeline' = Append(timeline, "shell")
                /\ ii' = 0
                /\ patchTried' = FALSE
                /\ stitchFeature' = "unbound"
                /\ attempts' = 0
                /\ patchCalls' = 0
                /\ solidSeen' = FALSE
                /\ tpc' = "stitch"
                /\ UNCHANGED result
    /\ UNCHANGED <<run, wasSurface, trial, undoReturn>>

\* One pass of 'while ii < len(tols)': a stitch attempt and what follows it,
\* the call of patchSurface included.
StitchAttempt ==
    /\ tpc = "stitch"
    /\ \E o \in StitchOutcomes, patched \in BOOLEAN :
         LET added == IF o \in {"solid", "no_body"}
                        THEN Append(timeline, "stitch") ELSE timeline
             failed == o \in {"non_solid", "exception"}
             patching == failed /\ MayPatch(patchTried)
         IN /\ attempts' = attempts + 1
            /\ stitchFeature' = CASE o = "solid" -> "solid"
                                  [] o = "no_body" -> "no_body"
                                  [] o = "non_solid" -> "deleted"
                                  [] o = "exception" -> stitchFeature
            /\ solidSeen' = (solidSeen \/ o = "solid")
            /\ timeline' = IF patching THEN patchSurface(added, patched) ELSE added
            /\ patchTried' = (patchTried \/ patching)
            /\ patchCalls' = patchCalls + (IF patching THEN 1 ELSE 0)
            /\ ii' = CASE patching -> 0
                       [] o = "solid" -> ii
                       [] OTHER -> ii + 1
            /\ tpc' = IF o = "solid" \/ ii' >= NumTols THEN "after_loop" ELSE "stitch"
    /\ UNCHANGED <<run, wasSurface, trial, undoReturn, result>>

\* 'if stitchFeature.bodies.count > 0' after the loop.  The local is unbound
\* when every stitches.add raised (UnboundLocalError); when it refers to a
\* feature the loop deleted, the read has no defined result: it raises, or it
\* reports no body, or it still reports the deleted body.
AfterStitchLoop ==
    /\ tpc = "after_loop"
    /\ CASE stitchFeature = "solid" -> tpc' = "combine" /\ UNCHANGED result
         [] stitchFeature = "no_body" -> Return("none")
         [] stitchFeature = "unbound" -> Return("raise")
         [] stitchFeature = "deleted" ->
              \/ tpc' = "combine" /\ UNCHANGED result
              \/ Return("none")
              \/ Return("raise")
    /\ UNCHANGED <<run, timeline, wasSurface, trial, undoReturn, stitching>>

\* The cut of surfaceToSolid and the rest of createShellFeature: a combine
\* feature with a body sets _wasSurface and the component is weighed.
Combine ==
    /\ tpc = "combine"
    /\ \E o \in {"body", "no_body", "falsy", "raise"} :
         /\ timeline' = IF o \in {"body", "no_body"}
                          THEN Append(timeline, "combine") ELSE timeline
         /\ wasSurface' = (wasSurface \/ o = "body")
         /\ Return(CASE o = "body" -> "mass"
                     [] o = "raise" -> "raise"
                     [] OTHER -> "none")
    /\ UNCHANGED <<run, trial, undoReturn, stitching>>

TrialNext ==
    \/ TrialCall
    \/ TrialUndo
    \/ TrialShell
    \/ StitchAttempt
    \/ AfterStitchLoop
    \/ Combine

\* The calls on their own: no run of optimiseThickness is in progress.
TrialInit == Init /\ oracle = "free" /\ bodies /\ maxIterations = 1

TrialSpec == TrialInit /\ [][TrialNext]_vars

\* ============================================================== properties
\* Positions at which optimiseThickness waits for objectiveFunction.
ObjectiveSites == {"initial", "reflection", "expansion", "outside_contraction",
                   "inside_contraction", "shrink"}

\* Positions of the loop body before iteration += 1.
BeforeIncrement == {"reflection", "expansion", "outside_contraction",
                    "inside_contraction", "shrink", "record"}

\* Passes of the while loop begun so far.
PassesStarted ==
    iteration + (IF pc \in BeforeIncrement \/ raisedAt \in BeforeIncrement THEN 1 ELSE 0)

RunEnded(p) == p \in {"finish", "except", "done"}

\* The configuration of the scenario of spec section 8, once Start has run.
ScenarioRun ==
    /\ oracle = "linear"
    /\ bodies
    /\ initialThickness = 10 * ScenarioGuessValue
    /\ solidMass = ScenarioTarget
    /\ tolerance = ScenarioTolerance
    /\ maxIterations = ScenarioMaxIterations

\* C1: when createShellFeature fails inside an objective evaluation (it
\* raises, or returns no result), objectiveFunction returns the sentinel 1e6
\* for that candidate and the search goes on instead of aborting.
C1_FailureBecomesSentinel ==
    [][(sub = "returned" /\ pc \in ObjectiveSites /\ ret.kind # "mass")
         => (objective' = Sentinel /\ pc' # "except")]_vars

\* C2: when undoShellFeatures fails before a trial, the step that receives
\* the failure ends the run: it starts no further createShellFeature call and
\* does not turn the failure into the sentinel objective value.
C2_ResetFailureEndsRun ==
    [][(sub = "returned" /\ undoResult = "None")
         => (RunEnded(pc') /\ sub' = "idle" /\ objective' # Sentinel)]_vars

\* C3: for every valid configuration and every oracle behaviour the while
\* loop begins at most maxIterations + 1 passes, and the run ends.
C3_Terminates ==
    [](PassesStarted <= maxIterations + 1) /\ <>(pc = "done")

C3_Witness ==
    pc = "done" /\ reason = "BudgetExhausted" /\ PassesStarted = maxIterations + 1

\* C4: with an oracle that fails on every evaluation the run uses its whole
\* budget and ends with reason BudgetExhausted, the best cached objective
\* value being the sentinel all along.
C4_AlwaysFailingExhaustsBudget ==
    (oracle = "failing" /\ bodies) =>
        /\ pc = "done" => (reason = "BudgetExhausted" /\ iteration = maxIterations + 1)
        /\ \A k \in 1..Len(simplex_values) : simplex_values[k] = Sentinel

\* C5: the scenario run (target 0.045 kg, guess 1.5 mm, tolerance 0.003 kg,
\* 50 iterations, measured(x) = 0.05 - 0.01*min(x,3)) ends Converged before
\* the budget is used up, and the reported thickness simplex[0] is within
\* the tolerance band (0.3 mm) of the root 0.5 mm.
C5_ScenarioConverges ==
    (ScenarioRun /\ pc = "done") =>
        /\ reason = "Converged"
        /\ iteration <= maxIterations
        /\ Abs(simplex[1] - ScenarioRoot) < ScenarioTolerance

C5_Witness ==
    ScenarioRun /\ pc = "done" /\ reason = "Converged" /\ iteration > 1

\* C6: for every mass m that createShellFeature returns (0 and the target
\* included) objectiveFunction returns exactly (m - target)^2.
C6_MeasurementIsSquaredError ==
    [][(sub = "returned" /\ pc \in ObjectiveSites /\ ret.kind = "mass")
         => objective' = SquaredError(ret.mass)]_vars

\* C7: the first shell creation of a run happens with no undo before it;
\* every later one directly follows a successful undo.
C7_FirstEvaluationWithoutReset ==
    [][(sub = "shell" /\ sub' = "returned")
         => IF shellAttempted THEN undoResult = "True" ELSE ~undoCalled]_vars

\* C8 as stated: a run never produces more than maxIterations records.
C8_RecordsWithinMax == Len(iterations) <= maxIterations

\* C8 amended: a run never produces more than maxIterations + 1 records, one
\* per completed pass.
C8_RecordsWithinMaxPlusOne ==
    Len(iterations) = iteration /\ Len(iterations) <= maxIterations + 1

C8_Witness == pc = "done" /\ Len(iterations) = maxIterations + 1

\* C9: while the value for a contraction is being obtained, the thickness
\* given to objectiveFunction is the contracted thickness.
C9_ContractionEvaluatedAtContractedPoint ==
    pc \in {"outside_contraction", "inside_contraction"}
        => thickness = contracted_thickness

\* C10: while the value for the expansion is being obtained, the thickness
\* given to objectiveFunction is the expansion thickness.
C10_ExpansionEvaluatedAtExpandedPoint ==
    pc = "expansion" => thickness = expanded_thickness

\* Positions between the update of the simplex and the end of the pass, and
\* after the loop.
AfterUpdate == {"record", "convergence", "finish"}

\* The lowest objective value cached in the simplex.
LowestCached ==
    CHOOSE v \in {simplex_values[k] : k \in 1..3} :
        \A k \in 1..3 : LessEq(v, simplex_values[k])

\* C11: once a pass has updated the simplex, the value cached in each slot
\* is the one objectiveFunction returned for the thickness held in that slot.
C11_CachedValueBelongsToSlotThickness ==
    pc \in AfterUpdate => \A k \in 1..3 : own_value[k]

\* C12: from the record of a pass to the report, the point in slot 0 (the
\* one recorded, weighed for the convergence test and reported) has the
\* lowest cached objective value of the simplex as updated in that pass.
C12_RecordedPointHasLowestValue ==
    pc \in AfterUpdate => simplex_values[1] = LowestCached

\* C13: each of the two passes of a shrink (the steps of optimiseThickness
\* that enter or continue the shrink loop) leaves the best point where it is
\* and moves one non-best point, slot 1 and then slot 2, to half its
\* previous distance from the best point; a shrink ends after both passes.
C13_ShrinkHalvesDistances ==
    [][/\ (sub = "returned" /\ pc' = "shrink") =>
             /\ simplex'[1] = simplex[1]
             /\ idx' = (IF pc = "shrink" THEN 3 ELSE 2)
             /\ 2 * (simplex'[idx'] - simplex[1]) = simplex[idx'] - simplex[1]
             /\ \A k \in (2..3) \ {idx'} : simplex'[k] = simplex[k]
       /\ (pc = "shrink" /\ pc' = "record") => (idx = 3 /\ simplex' = simplex)]_vars

\* Both non-best points have moved, and they had a distance to halve.
C13_Witness ==
    /\ pc = "shrink" /\ idx = 3 /\ sub = "returned" /\ ret.kind = "mass"
    /\ simplex[2] # simplex[1] /\ simplex[3] # simplex[1]

\* C14: once the simplex is evaluated, no step raises its lowest cached
\* value: slot 0 is written by the sort only, and the sort puts there a
\* value no larger than the one it held.
C14_LowestValueNeverIncreases ==
    [][(Len(simplex_values) = 3 /\ Len(simplex_values') = 3) =>
         /\ LessEq(LowestCached', LowestCached)
         /\ LessEq(simplex_values'[1], simplex_values[1])
         /\ pc # "while" => (simplex'[1] = simplex[1]
                               /\ simplex_values'[1] = simplex_values[1])]_vars

\* A later pass whose sort has replaced the point in slot 0: the previous
\* pass recorded another thickness as the best.
C14_Witness ==
    /\ pc = "reflection" /\ iteration >= 1
    /\ simplex[1] # iterations[iteration]
    /\ Less(simplex_values[1], simplex_values[2])

\* C16: when the handler has returned, the body has the name it had before
\* the run.
C16_NameRestored == pc = "done" => bodyName = "Body1"

\* C15: when undoShellFeatures has returned True in a call that follows an
\* earlier call, no feature of the earlier calls is left in the design and
\* _wasSurface is False.
C15_UndoRemovesEveryFeature ==
    (tpc = "shell" /\ trial > 1) => (timeline = <<>> /\ ~wasSurface)

====
